---------------------------- MODULE Spec2Model ----------------------------
(***************************************************************************)
(* A model of the Influence OS backend (src/main.py, src/models.py):        *)
(* the FastAPI route handlers, the posts table they share, and the calls    *)
(* they make to the LinkedIn provider and to the text-generation chain.     *)
(*                                                                          *)
(* Each worker holds the request it is serving, and answer holds the        *)
(* request that was answered last, with its response.  A handler that       *)
(* awaits an outbound call is split at the await: one action issues the     *)
(* call, the next consumes the provider's answer, drawn from a small set.   *)
(* Strings that end up inside a URL are sequences of lexemes, so that       *)
(* building a URL (f-string concatenation) and reading its query string     *)
(* back are different operations.                                           *)
(***************************************************************************)
EXTENDS Integers, Sequences, FiniteSets, TLC

VARIABLES
    posts,      \* committed rows of table "posts" (models.Post)
    next_id,    \* the table's id sequence: the id the next INSERT gets
    now,        \* the latest time the storage engine's clock has reported
    env,        \* process environment read by os.getenv
    reqs,       \* per worker: the request it is serving
    answer      \* the request answered last, and the response it got

vars == <<posts, next_id, now, env, reqs, answer>>

---------------------------------------------------------------------------
(* Bounds of the model *)

MaxRows == 2        \* generate-post requests admitted (rows ever inserted)
MaxClock == 1       \* the clock reads 0..MaxClock
MaxSkip == 2        \* skip is drawn from 0..MaxSkip
MaxLimit == 2       \* limit is drawn from 0..MaxLimit
MaxTokenLen == 2    \* an access token holds at most this many lexemes

Workers == {"w1", "w2"}

---------------------------------------------------------------------------
(* Program constants *)

HTTP_OK == 200
HTTP_CREATED == 201
DEFAULT_SKIP == 0
DEFAULT_LIMIT == 100

FRONTEND == "http://localhost:3000"
AUTHORIZATION_URL == "https://www.linkedin.com/oauth/v2/authorization"
REDIRECT_URI == "http://127.0.0.1:8000/auth/linkedin/callback"
SCOPE == "profile openid email w_member_social"
TOKEN_URL == "https://www.linkedin.com/oauth/v2/accessToken"
PROFILE_URL == "https://api.linkedin.com/v2/userinfo"
SHARE_URL == "https://api.linkedin.com/v2/posts"

---------------------------------------------------------------------------
(* Values drawn for inputs and provider answers *)

None == "None"

RECURSIVE SeqsOfLen(_, _)
SeqsOfLen(S, n) ==
    IF n = 0 THEN {<<>>}
    ELSE {Append(s, x) : s \in SeqsOfLen(S, n - 1), x \in S}

\* lexemes an access token may be made of: a plain character and the
\* query-string separator
TokenChars == {"a", "&"}
Tokens == UNION {SeqsOfLen(TokenChars, n) : n \in 1..MaxTokenLen}

\* bearer credentials presented by clients on /users/me and /posts/share
Credentials == {<<"a">>, <<"a", "&">>}
Codes == {"c1", "c2"}
Subs == {"u1"}
Texts == {"x", "y"}
Roles == {"engineer"}
Topics == {"ai"}
Tones == {"professional"}
ClientIds == {"cid", None}
Statuses == {HTTP_OK, HTTP_CREATED, 401}

\* a response body: raw text that either parses as a JSON object or not
NotJson == [json |-> FALSE, obj |-> <<>>]
Json(o) == [json |-> TRUE, obj |-> o]
ErrorBody == Json([message |-> "denied"])
TokenBodies == {NotJson, ErrorBody} \cup {Json([access_token |-> t]) : t \in Tokens}
ProfileBodies == {NotJson, ErrorBody} \cup {Json([sub |-> u]) : u \in Subs}
ShareBodies == {NotJson, ErrorBody}
ChainError == "ChainError"

Response(status, body) == [status |-> status, body |-> body]

---------------------------------------------------------------------------
(* Responses of the handlers *)

NoOut == [kind |-> "none"]
JsonOut(b) == [kind |-> "json", body |-> b]
Redirect(url) == [kind |-> "redirect", url |-> url]
ServerError(exc) == [kind |-> "unhandled", exc |-> exc]

\* a models.Post object before the storage engine has filled it in
NoPost == [id |-> None, post_text |-> None, created_at |-> None]

Idle == [op |-> "idle", pc |-> "idle", in |-> <<>>, calls |-> <<>>,
         resp |-> <<>>, db_post |-> NoPost, out |-> NoOut]

\* a worker takes a new request once it has answered the previous one
Free(w) == reqs[w] = Idle

Start(op, pc, in, calls) ==
    [Idle EXCEPT !.op = op, !.pc = pc, !.in = in, !.calls = calls]

Init ==
    /\ posts = {}
    /\ next_id = 1
    /\ now = 0
    /\ env \in [LINKEDIN_CLIENT_ID : ClientIds, LINKEDIN_CLIENT_SECRET : {"secret"}]
    /\ reqs = [w \in Workers |-> Idle]
    /\ answer = Idle

\* worker w moves its request on to r: it keeps it while r awaits something,
\* and sends the response once r has returned or raised
Proceed(w, r) ==
    IF r.pc \in {"done", "raised"}
    THEN answer' = r /\ reqs' = [reqs EXCEPT ![w] = Idle]
    ELSE reqs' = [reqs EXCEPT ![w] = r] /\ UNCHANGED answer

---------------------------------------------------------------------------
(* GET / *)

read_root(w) ==
    /\ Free(w)
    /\ Proceed(w, [Start("read_root", "done", <<>>, <<>>) EXCEPT
                !.out = JsonOut([status |-> "Influence OS API is running."])])
    /\ UNCHANGED <<posts, next_id, now, env>>

---------------------------------------------------------------------------
(* GET /posts *)

MinId(S) == CHOOSE r \in S : \A q \in S : r.id <= q.id

RECURSIVE OrderById(_)
OrderById(S) ==
    IF S = {} THEN <<>>
    ELSE <<MinId(S)>> \o OrderById(S \ {MinId(S)})

Min(a, b) == IF a <= b THEN a ELSE b

\* crud.get_posts: the rows in id order, the first skip dropped, at most
\* limit kept
get_posts(db, skip, limit) ==
    SubSeq(OrderById(db), skip + 1, Min(skip + limit, Cardinality(db)))

\* variant: skip and limit change places on the way to crud.get_posts
read_posts_swapped(w, skip, limit) ==
    /\ Free(w)
    /\ Proceed(w, [Start("read_posts", "done",
                          [skip |-> skip, limit |-> limit], <<>>)
                EXCEPT !.out = JsonOut(get_posts(posts, limit, skip))])
    /\ UNCHANGED <<posts, next_id, now, env>>

\* lines 98-104
read_posts(w, skip, limit) ==
    /\ Free(w)
    /\ Proceed(w, [Start("read_posts", "done",
                          [skip |-> skip, limit |-> limit], <<>>)
                EXCEPT !.out = JsonOut(get_posts(posts, skip, limit))])
    /\ UNCHANGED <<posts, next_id, now, env>>

---------------------------------------------------------------------------
(* GET /auth/linkedin *)

linkedin_auth_url ==
    <<AUTHORIZATION_URL, "?", "response_type", "=", "code",
      "&", "client_id", "=", env.LINKEDIN_CLIENT_ID,
      "&", "redirect_uri", "=", REDIRECT_URI,
      "&", "scope", "=", SCOPE>>

login_via_linkedin(w) ==
    /\ Free(w)
    /\ Proceed(w, [Start("login_via_linkedin", "done", <<>>, <<>>) EXCEPT
                !.out = Redirect(linkedin_auth_url)])
    /\ UNCHANGED <<posts, next_id, now, env>>

---------------------------------------------------------------------------
(* GET /users/me *)

BearerHeaders(access_token) == [Authorization |-> <<"Bearer", access_token>>]

Get(url, headers) == [method |-> "GET", url |-> url, headers |-> headers]
PostForm(url, data) == [method |-> "POST", url |-> url, data |-> data]
PostJson(url, headers, json) ==
    [method |-> "POST", url |-> url, headers |-> headers, json |-> json]

\* lines 129-134: the handler sends the profile GET and awaits the answer
get_user_profile(w, access_token) ==
    /\ Free(w)
    /\ Proceed(w, Start("get_user_profile", "await_profile",
                  [credentials |-> access_token],
                  <<Get(PROFILE_URL, BearerHeaders(access_token))>>))
    /\ UNCHANGED <<posts, next_id, now, env>>

\* variant: any 2xx answer is taken as the profile
get_user_profile_result_any_2xx(r, response) ==
    IF response.status \in {HTTP_OK, HTTP_CREATED} /\ response.body.json
    THEN [r EXCEPT !.pc = "done", !.out = JsonOut(response.body.obj)]
    ELSE [r EXCEPT !.pc = "done",
                   !.out = JsonOut([error |-> "Failed to fetch profile",
                                    details |-> response.body])]

\* lines 136-139
get_user_profile_result(r, response) ==
    IF response.status = HTTP_OK
    THEN IF response.body.json
         THEN [r EXCEPT !.pc = "done", !.out = JsonOut(response.body.obj)]
         ELSE [r EXCEPT !.pc = "raised", !.out = ServerError("JSONDecodeError")]
    ELSE [r EXCEPT !.pc = "done",
                   !.out = JsonOut([error |-> "Failed to fetch profile",
                                    details |-> response.body])]

get_user_profile_return(w, response) ==
    /\ reqs[w].op = "get_user_profile"
    /\ reqs[w].pc = "await_profile"
    /\ Proceed(w, get_user_profile_result(
                        [reqs[w] EXCEPT !.resp = <<response>>], response))
    /\ UNCHANGED <<posts, next_id, now, env>>

---------------------------------------------------------------------------
(* POST /posts/share *)

share_post_on_linkedin(w, post_text, access_token) ==
    /\ Free(w)
    /\ Proceed(w, Start("share_post_on_linkedin", "await_profile",
                  [post_text |-> post_text, credentials |-> access_token],
                  <<Get(PROFILE_URL, BearerHeaders(access_token))>>))
    /\ UNCHANGED <<posts, next_id, now, env>>

share_payload(user_urn, post_text) ==
    [author |-> <<"urn:li:person:", user_urn>>,
     commentary |-> post_text,
     visibility |-> "PUBLIC",
     distribution |-> [feedDistribution |-> "MAIN_FEED",
                       targetEntities |-> <<>>,
                       thirdPartyDistributionChannels |-> <<>>],
     lifecycleState |-> "PUBLISHED",
     isReshareDisabledByAuthor |-> FALSE]

\* variant: the status of the profile answer is not looked at
share_profile_result_unchecked(r, profile_response) ==
    IF ~profile_response.body.json
    THEN [r EXCEPT !.pc = "raised", !.out = ServerError("JSONDecodeError")]
    ELSE IF "sub" \notin DOMAIN profile_response.body.obj
    THEN [r EXCEPT !.pc = "raised", !.out = ServerError("KeyError")]
    ELSE [r EXCEPT !.pc = "await_share",
             !.calls = Append(@,
                 PostJson(SHARE_URL, BearerHeaders(r.in.credentials),
                          share_payload(profile_response.body.obj.sub,
                                        r.in.post_text)))]

\* lines 161-183: after the profile answer, either return the error, raise
\* on a body without "sub", or send the publish POST
share_profile_result(r, profile_response) ==
    IF profile_response.status # HTTP_OK
    THEN [r EXCEPT !.pc = "done",
             !.out = JsonOut([error |-> "Could not fetch user profile to get author URN"])]
    ELSE IF ~profile_response.body.json
    THEN [r EXCEPT !.pc = "raised", !.out = ServerError("JSONDecodeError")]
    ELSE IF "sub" \notin DOMAIN profile_response.body.obj
    THEN [r EXCEPT !.pc = "raised", !.out = ServerError("KeyError")]
    ELSE [r EXCEPT !.pc = "await_share",
             !.calls = Append(@,
                 PostJson(SHARE_URL, BearerHeaders(r.in.credentials),
                          share_payload(profile_response.body.obj.sub,
                                        r.in.post_text)))]

share_profile_return(w, profile_response) ==
    /\ reqs[w].op = "share_post_on_linkedin"
    /\ reqs[w].pc = "await_profile"
    /\ Proceed(w, share_profile_result(
                        [reqs[w] EXCEPT !.resp = <<profile_response>>],
                        profile_response))
    /\ UNCHANGED <<posts, next_id, now, env>>

\* lines 185-188
share_result(r, share_response) ==
    IF share_response.status = HTTP_CREATED
    THEN [r EXCEPT !.pc = "done",
             !.out = JsonOut([message |-> "Post shared successfully on LinkedIn!"])]
    ELSE IF share_response.body.json
    THEN [r EXCEPT !.pc = "done",
             !.out = JsonOut([error |-> "Failed to share post",
                              details |-> share_response.body.obj])]
    ELSE [r EXCEPT !.pc = "raised", !.out = ServerError("JSONDecodeError")]

share_return(w, share_response) ==
    /\ reqs[w].op = "share_post_on_linkedin"
    /\ reqs[w].pc = "await_share"
    /\ Proceed(w, share_result(
                        [reqs[w] EXCEPT !.resp = Append(@, share_response)],
                        share_response))
    /\ UNCHANGED <<posts, next_id, now, env>>

---------------------------------------------------------------------------
(* GET /auth/linkedin/callback *)

token_payload(code) ==
    [grant_type |-> "authorization_code",
     code |-> code,
     redirect_uri |-> REDIRECT_URI,
     client_id |-> env.LINKEDIN_CLIENT_ID,
     client_secret |-> env.LINKEDIN_CLIENT_SECRET]

\* lines 198-212
linkedin_callback(w, code) ==
    /\ Free(w)
    /\ Proceed(w, Start("linkedin_callback", "await_token", [code |-> code],
                  <<PostForm(TOKEN_URL, token_payload(code))>>))
    /\ UNCHANGED <<posts, next_id, now, env>>

\* line 218: the f-string puts the token into the URL as it is
frontend_url(access_token) == <<FRONTEND, "?", "token", "=">> \o access_token

\* variant: a failed exchange is tried once more
linkedin_callback_result_retry(r, response) ==
    IF response.status = HTTP_OK /\ response.body.json
            /\ "access_token" \in DOMAIN response.body.obj
    THEN [r EXCEPT !.pc = "done",
             !.out = Redirect(frontend_url(response.body.obj.access_token))]
    ELSE IF Len(r.calls) < 2
    THEN [r EXCEPT !.pc = "await_token", !.calls = Append(@, r.calls[1])]
    ELSE [r EXCEPT !.pc = "done",
             !.out = Redirect(<<FRONTEND, "?", "error", "=", "auth_failed">>)]

\* variant: a failed exchange fails the callback after it too, as a
\* server-side session flag would
linkedin_callback_result_session(r, response) ==
    IF /\ response.status = HTTP_OK
       /\ response.body.json
       /\ "access_token" \in DOMAIN response.body.obj
       /\ ~(/\ answer.op = "linkedin_callback"
            /\ answer.resp[1].status # HTTP_OK)
    THEN [r EXCEPT !.pc = "done",
             !.out = Redirect(frontend_url(response.body.obj.access_token))]
    ELSE [r EXCEPT !.pc = "done",
             !.out = Redirect(<<FRONTEND, "?", "error", "=", "auth_failed">>)]

\* lines 214-222
linkedin_callback_result(r, response) ==
    IF response.status = HTTP_OK
    THEN IF ~response.body.json
         THEN [r EXCEPT !.pc = "raised", !.out = ServerError("JSONDecodeError")]
         ELSE IF "access_token" \notin DOMAIN response.body.obj
         THEN [r EXCEPT !.pc = "raised", !.out = ServerError("KeyError")]
         ELSE [r EXCEPT !.pc = "done",
                  !.out = Redirect(frontend_url(response.body.obj.access_token))]
    ELSE [r EXCEPT !.pc = "done",
             !.out = Redirect(<<FRONTEND, "?", "error", "=", "auth_failed">>)]

linkedin_callback_return(w, response) ==
    /\ reqs[w].op = "linkedin_callback"
    /\ reqs[w].pc = "await_token"
    /\ Proceed(w, linkedin_callback_result(
                        [reqs[w] EXCEPT !.resp = <<response>>], response))
    /\ UNCHANGED <<posts, next_id, now, env>>

---------------------------------------------------------------------------
(* POST /generate-post *)

\* requests admitted so far that have inserted or may still insert a row
Admitted ==
    (next_id - 1) +
    Cardinality({w \in Workers : /\ reqs[w].op = "generate_post"
                                 /\ reqs[w].pc \in {"await_chain", "insert"}})

\* lines 231-235: the prompt goes to the chain
generate_post(w, role, topic, tone) ==
    /\ Free(w)
    /\ Admitted < MaxRows
    /\ Proceed(w, Start("generate_post", "await_chain",
                  [role |-> role, topic |-> topic, tone |-> tone],
                  <<[chain |-> [role |-> role, topic |-> topic, tone |-> tone]]>>))
    /\ UNCHANGED <<posts, next_id, now, env>>

\* variant: a failed chain call is swallowed and an empty text is stored
chain_result_swallow(r, generated_text, txn_start) ==
    [r EXCEPT !.pc = "insert",
        !.db_post = [NoPost EXCEPT
            !.post_text = IF generated_text = ChainError THEN "" ELSE generated_text,
            !.created_at = txn_start]]

\* lines 231-240: the chain raises, or returns the text; db.commit() then
\* flushes, which opens the transaction: func.now() is the transaction's
\* start time, txn_start
chain_result(r, generated_text, txn_start) ==
    IF generated_text = ChainError
    THEN [r EXCEPT !.pc = "raised", !.out = ServerError(ChainError)]
    ELSE [r EXCEPT !.pc = "insert",
             !.db_post = [NoPost EXCEPT !.post_text = generated_text,
                                        !.created_at = txn_start]]

\* the clock never runs backwards: the engine reports a time t >= now
chain_return(w, generated_text, t) ==
    /\ reqs[w].op = "generate_post"
    /\ reqs[w].pc = "await_chain"
    /\ t >= now
    /\ now' = IF generated_text = ChainError THEN now ELSE t
    /\ Proceed(w, chain_result(
                        [reqs[w] EXCEPT !.resp = <<generated_text>>],
                        generated_text, t))
    /\ UNCHANGED <<posts, next_id, env>>

\* line 240, the INSERT of the flush: the id comes from the sequence
db_insert(w) ==
    /\ reqs[w].op = "generate_post"
    /\ reqs[w].pc = "insert"
    /\ reqs' = [reqs EXCEPT ![w].pc = "commit", ![w].db_post.id = next_id]
    /\ next_id' = next_id + 1
    /\ UNCHANGED <<posts, now, env, answer>>

\* variant: the handler returns the object without the COMMIT
db_commit_unsaved(w) ==
    /\ reqs[w].op = "generate_post"
    /\ reqs[w].pc = "commit"
    /\ Proceed(w, [reqs[w] EXCEPT !.pc = "done", !.out = JsonOut(reqs[w].db_post)])
    /\ UNCHANGED <<posts, next_id, now, env>>

\* lines 240-243: COMMIT makes the row visible; refresh reads it back and
\* the handler returns it
db_commit(w) ==
    /\ reqs[w].op = "generate_post"
    /\ reqs[w].pc = "commit"
    /\ posts' = posts \cup {reqs[w].db_post}
    /\ Proceed(w, [reqs[w] EXCEPT !.pc = "done", !.out = JsonOut(reqs[w].db_post)])
    /\ UNCHANGED <<next_id, now, env>>

---------------------------------------------------------------------------
(* Specifications *)

Skips == (0..MaxSkip) \cup {DEFAULT_SKIP}
Limits == (0..MaxLimit) \cup {DEFAULT_LIMIT}

\* the handlers that read or write the posts table, served by workers W
StoreStep(W) ==
    \/ \E w \in W, skip \in Skips, limit \in Limits :
            read_posts(w, skip, limit)
    \/ \E w \in W, role \in Roles, topic \in Topics, tone \in Tones :
            generate_post(w, role, topic, tone)
    \/ \E w \in W, text \in Texts \cup {ChainError}, t \in 0..MaxClock :
            chain_return(w, text, t)
    \/ \E w \in W : db_insert(w)
    \/ \E w \in W : db_commit(w)

\* the handlers of the OAuth flow, served by workers W
OAuthStep(W) ==
    \/ \E w \in W : login_via_linkedin(w)
    \/ \E w \in W, code \in Codes : linkedin_callback(w, code)
    \/ \E w \in W, status \in Statuses, body \in TokenBodies :
            linkedin_callback_return(w, Response(status, body))
    \/ \E w \in W, token \in Credentials : get_user_profile(w, token)
    \/ \E w \in W, status \in Statuses, body \in ProfileBodies :
            get_user_profile_return(w, Response(status, body))
    \/ \E w \in W, text \in Texts, token \in Credentials :
            share_post_on_linkedin(w, text, token)
    \/ \E w \in W, status \in Statuses, body \in ProfileBodies :
            share_profile_return(w, Response(status, body))
    \/ \E w \in W, status \in Statuses, body \in ShareBodies :
            share_return(w, Response(status, body))

NextStore == StoreStep(Workers)
NextOAuth == OAuthStep(Workers)

\* Every handler of the application.  The OAuth handlers and GET / keep
\* their whole state in their own request, so one worker serving them next
\* to the workers serving the store is every interleaving with the table.
Next ==
    \/ read_root("w1")
    \/ StoreStep(Workers)
    \/ OAuthStep({"w1"})

Spec == Init /\ [][Next]_vars
SpecStore == Init /\ [][NextStore]_vars
SpecOAuth == Init /\ [][NextOAuth]_vars

---------------------------------------------------------------------------
(* Reading a URL back: what the receiver of a redirect finds in its query  *)
(* string.  "?" starts the query, "&" separates its parameters, the first  *)
(* "=" of a parameter separates its name from its value.                   *)

IndexOf(s, x) ==
    IF \E i \in 1..Len(s) : s[i] = x
    THEN CHOOSE i \in 1..Len(s) : s[i] = x /\ \A j \in 1..(i - 1) : s[j] # x
    ELSE 0

RECURSIVE SplitOn(_, _)
SplitOn(s, sep) ==
    IF IndexOf(s, sep) = 0 THEN <<s>>
    ELSE <<SubSeq(s, 1, IndexOf(s, sep) - 1)>>
            \o SplitOn(SubSeq(s, IndexOf(s, sep) + 1, Len(s)), sep)

Origin(url) ==
    IF IndexOf(url, "?") = 0 THEN url ELSE SubSeq(url, 1, IndexOf(url, "?") - 1)

QueryString(url) ==
    IF IndexOf(url, "?") = 0 THEN <<>>
    ELSE SubSeq(url, IndexOf(url, "?") + 1, Len(url))

KeyValue(part) ==
    IF IndexOf(part, "=") = 0 THEN [key |-> part, value |-> <<>>]
    ELSE [key |-> SubSeq(part, 1, IndexOf(part, "=") - 1),
          value |-> SubSeq(part, IndexOf(part, "=") + 1, Len(part))]

\* the parameters in order; empty parts ("a=1&&b=2") are skipped
QueryParams(url) ==
    LET parts == SplitOn(QueryString(url), "&")
    IN  SelectSeq([i \in 1..Len(parts) |-> KeyValue(parts[i])],
                  LAMBDA p : p.key # <<>> \/ p.value # <<>>)

HasParam(url, name) ==
    \E i \in 1..Len(QueryParams(url)) : QueryParams(url)[i].key = <<name>>

\* the value of the first parameter called name
Param(url, name) ==
    LET ps == QueryParams(url)
        i == CHOOSE i \in 1..Len(ps) :
                /\ ps[i].key = <<name>>
                /\ \A j \in 1..(i - 1) : ps[j].key # <<name>>
    IN  ps[i].value

\* every request the state holds: those being served and the one answered last
Requests == {reqs[w] : w \in Workers} \cup {answer}
Answered(r) == r.pc \in {"done", "raised"}

---------------------------------------------------------------------------
(* The OAuth flow: properties checked under SpecOAuth *)

GotToken(r) ==
    /\ r.op = "linkedin_callback"
    /\ Len(r.resp) = 1
    /\ r.resp[1].status = HTTP_OK
    /\ r.resp[1].body.json
    /\ "access_token" \in DOMAIN r.resp[1].body.obj

\* C1: a callback whose token exchange answered 200 with access_token = T
\* redirects to the frontend with query parameter token equal to exactly T,
\* the token of its own exchange, and with no error parameter.
C1_CallbackDeliversOwnToken ==
    \A r \in Requests :
        GotToken(r) =>
            /\ r.pc = "done"
            /\ r.out.kind = "redirect"
            /\ Origin(r.out.url) = <<FRONTEND>>
            /\ HasParam(r.out.url, "token")
            /\ Param(r.out.url, "token") = r.resp[1].body.obj.access_token
            /\ ~HasParam(r.out.url, "error")

TokenRefused(r) ==
    /\ r.op = "linkedin_callback"
    /\ Len(r.resp) >= 1
    /\ r.resp[1].status # HTTP_OK

\* C2: a callback whose token exchange answered anything but 200 redirects
\* to the frontend with error=auth_failed and no token, having sent exactly
\* one POST to the token endpoint.
C2_CallbackFailureRedirects ==
    \A r \in Requests :
        /\ r.op = "linkedin_callback" =>
            /\ Len(r.calls) = 1
            /\ r.calls[1].method = "POST"
            /\ r.calls[1].url = TOKEN_URL
        /\ TokenRefused(r) =>
            /\ r.pc = "done"
            /\ r.out.kind = "redirect"
            /\ Origin(r.out.url) = <<FRONTEND>>
            /\ HasParam(r.out.url, "error")
            /\ Param(r.out.url, "error") = <<"auth_failed">>
            /\ ~HasParam(r.out.url, "token")

C2_Witness == TokenRefused(answer) /\ answer.pc = "done"

PublishCalls(r) == {i \in 1..Len(r.calls) : r.calls[i].url = SHARE_URL}

\* C3: in a share request the publish POST is sent only once the profile
\* fetch of the same request has answered 200; on any other answer the
\* handler returns the profile-fetch error and sends no publish POST.
C3_PublishOnlyAfterProfile ==
    \A r \in Requests :
        r.op = "share_post_on_linkedin" =>
            /\ Len(r.calls) >= 1
            /\ r.calls[1].method = "GET"
            /\ r.calls[1].url = PROFILE_URL
            /\ PublishCalls(r) # {} =>
                /\ PublishCalls(r) = {2}
                /\ r.calls[2].method = "POST"
                /\ Len(r.resp) >= 1
                /\ r.resp[1].status = HTTP_OK
            /\ (Len(r.resp) >= 1 /\ r.resp[1].status # HTTP_OK) =>
                /\ r.pc = "done"
                /\ r.out.kind = "json"
                /\ r.out.body.error = "Could not fetch user profile to get author URN"
                /\ PublishCalls(r) = {}

C3_Witness ==
    /\ answer.op = "share_post_on_linkedin"
    /\ answer.pc = "done"
    /\ answer.resp[1].status # HTTP_OK
    /\ \E w \in Workers :
        /\ reqs[w].op = "share_post_on_linkedin"
        /\ PublishCalls(reqs[w]) = {2}

Published(r) == Len(r.resp) = 2 /\ r.resp[2].status = HTTP_CREATED

\* C4: every share request ends by returning, without raising, either an
\* object {message}, exactly when the publish answer was 201, or an error
\* object with both an error and a details field.
C4_ShareAlwaysStructured ==
    \A r \in Requests :
        (r.op = "share_post_on_linkedin" /\ Answered(r)) =>
            /\ r.pc = "done"
            /\ r.out.kind = "json"
            /\ \/ Published(r) /\ DOMAIN r.out.body = {"message"}
               \/ ~Published(r) /\ {"error", "details"} \subseteq DOMAIN r.out.body

\* C5: a /users/me request sends exactly one GET to the userinfo endpoint
\* with the bearer token it was given; a 200 answer is returned as the JSON
\* body it carried, any other answer as an object with error and details,
\* without raising.
C5_ProfileFetch ==
    \A r \in Requests :
        r.op = "get_user_profile" =>
            /\ Len(r.calls) = 1
            /\ r.calls[1].method = "GET"
            /\ r.calls[1].url = PROFILE_URL
            /\ r.calls[1].headers.Authorization = <<"Bearer", r.in.credentials>>
            /\ (/\ Len(r.resp) = 1
                /\ r.resp[1].status = HTTP_OK
                /\ r.resp[1].body.json) =>
                    /\ r.pc = "done"
                    /\ r.out = [kind |-> "json", body |-> r.resp[1].body.obj]
            /\ (Len(r.resp) = 1 /\ r.resp[1].status # HTTP_OK) =>
                    /\ r.pc = "done"
                    /\ r.out.kind = "json"
                    /\ {"error", "details"} \subseteq DOMAIN r.out.body

C5_Witness ==
    /\ answer.op = "get_user_profile"
    /\ answer.pc = "done"
    /\ answer.resp[1].status # HTTP_OK
    /\ answer.in.credentials = <<"a", "&">>

LoginRedirect(r) ==
    /\ r.pc = "done"
    /\ r.out.kind = "redirect"
    /\ Origin(r.out.url) = <<AUTHORIZATION_URL>>
    /\ Len(QueryParams(r.out.url)) = 4
    /\ Param(r.out.url, "response_type") = <<"code">>
    /\ Param(r.out.url, "client_id") = <<env.LINKEDIN_CLIENT_ID>>
    /\ Param(r.out.url, "redirect_uri") = <<REDIRECT_URI>>
    /\ Param(r.out.url, "scope") = <<SCOPE>>

SameRequest(r, q) ==
    /\ r.op \in {"linkedin_callback", "get_user_profile", "share_post_on_linkedin"}
    /\ q.op = r.op
    /\ q.in = r.in
    /\ q.resp = r.resp

---------------------------------------------------------------------------
(* The posts table: properties checked under SpecStore and Spec *)

Generated(r) ==
    /\ r.op = "generate_post"
    /\ Len(r.resp) = 1
    /\ r.resp[1] \in Texts

\* how many rows of table db come before row r in id order
PositionIn(db, r) == Cardinality({q \in db : q.id < r.id})

Rows(page) == {page[i] : i \in 1..Len(page)}

\* the step in which a GET /posts is answered: the table it read is posts
ReadStep == answer'.op = "read_posts" /\ answer' # answer

\* the step in which worker w commits its row and answers
CommitStep(w) ==
    /\ reqs[w].op = "generate_post"
    /\ reqs[w].pc = "commit"
    /\ reqs'[w] = Idle
    /\ answer'.op = "generate_post"

\* C6: a generate-post request whose model call returned X answers with a
\* post whose post_text is X; exactly one row, with text X and the returned
\* id, is appended to the table; and every later GET /posts whose window
\* covers the row's position returns it, under any interleaving.
C6_GeneratedPostStoredAndListed ==
    [][/\ \A w \in Workers :
            CommitStep(w) =>
                /\ Generated(reqs[w])
                /\ answer'.in = reqs[w].in
                /\ answer'.pc = "done"
                /\ answer'.out.kind = "json"
                /\ answer'.out.body.post_text = reqs[w].resp[1]
                /\ \A r \in posts : r.id # answer'.out.body.id
                /\ posts' = posts \cup {answer'.out.body}
       /\ (Generated(answer') /\ Answered(answer')) =>
                /\ answer'.pc = "done"
                /\ answer'.out.body.post_text = answer'.resp[1]
                /\ answer'.out.body \in posts'
                /\ Cardinality({r \in posts' : r.id = answer'.out.body.id}) = 1
       /\ ReadStep =>
            \A r \in posts :
                (/\ answer'.in.skip <= PositionIn(posts, r)
                 /\ PositionIn(posts, r) < answer'.in.skip + answer'.in.limit)
                    => r \in Rows(answer'.out.body)
      ]_vars

C6_Witness ==
    /\ answer.op = "read_posts"
    /\ answer.in.skip = 1
    /\ Cardinality(posts) = 2
    /\ \E r \in posts : r.id = 2 /\ r.post_text = "y" /\ r \in Rows(answer.out.body)

PageLen(k, m, N) == IF Min(k + m, N) > k THEN Min(k + m, N) - k ELSE 0

\* the rows at positions k .. min(k+m, N)-1 of the id order, in that order
ExactPage ==
    LET k == answer'.in.skip
        m == answer'.in.limit
        page == answer'.out.body
    IN  /\ Len(page) = PageLen(k, m, Cardinality(posts))
        /\ \A i \in 1..Len(page) :
                /\ page[i] \in posts
                /\ PositionIn(posts, page[i]) = k + i - 1
        /\ (k >= Cardinality(posts)) => page = <<>>

\* a GET /posts answered right after a GET /posts with the same skip and
\* limit, the table not having changed, answers the same
SameReadSameAnswer ==
    (/\ answer.op = "read_posts"
     /\ answer'.op = "read_posts"
     /\ answer'.in = answer.in
     /\ posts' = posts) => answer'.out = answer.out

C8_CreatedAtFollowsId ==
    \A p, q \in posts :
        /\ (p.id = q.id) => p = q
        /\ (p.id < q.id) => p.created_at <= q.created_at

\* C9: the table changes only by a generate-post request, whose model call
\* succeeded, appending one new row; every other step of every handler
\* leaves it as it is, and no stored row is ever changed or removed.
C9_TableOnlyGrowsByGenerate ==
    [][/\ posts \subseteq posts'
       /\ posts' # posts =>
            \E w \in Workers :
                /\ CommitStep(w)
                /\ Generated(reqs[w])
                /\ posts' = posts \cup {answer'.out.body}
                /\ \A r \in posts : r.id # answer'.out.body.id
                /\ \A v \in Workers \ {w} : reqs'[v] = reqs[v]
      ]_vars

C9_Witness ==
    /\ Cardinality(posts) = 1
    /\ answer.op = "generate_post" /\ answer.pc = "raised"
    /\ reqs["w1"].op = "share_post_on_linkedin"

=============================================================================
